---- MODULE Spec2Model ----
(***************************************************************************)
(* Model of the sales-report pipeline: the code-execution tool             *)
(* (custom_tool_vendas.py) and the two-task sequential crew                *)
(* (crew_sales_report.py), the webhook that calls the pipeline (app.py)    *)
(* and the messaging client (send_sandeco.py).                             *)
(*                                                                         *)
(* A program text handed to the tool is a sequence of statements; the      *)
(* statements are drawn one at a time while the text runs, so that every   *)
(* text of at most MaxLen statements is covered.  Threads are the callers  *)
(* of SalesReportCrew.kickoff; module_globals is the dictionary that       *)
(* globals() returns inside custom_tool_vendas.py, of which there is one   *)
(* per process.                                                            *)
(***************************************************************************)
EXTENDS Integers, Sequences, FiniteSets, TLC

\* ------------------------------------------------------------------ bounds
\* Longest program text, in statements.
MaxLen == 2
\* Most tool invocations the Generation Stage makes in one kickoff.
MaxToolCalls == 2
\* Most kickoff calls one caller makes one after the other.
MaxCalls == 2

\* The callers of kickoff, and the SalesReportCrew objects they may call.
Threads == {1, 2}
Instances == {1, 2}

\* ------------------------------------------------------------ Python values
StrV(s) == [t |-> "str", s |-> s, n |-> 0]
IntV(n) == [t |-> "int", s |-> "", n |-> n]
NoneV == [t |-> "NoneType", s |-> "", n |-> 0]
\* A name that a namespace does not hold.
Unbound == [t |-> "unbound", s |-> "", n |-> 0]

\* Names a program text binds or reads.
Names == {"resultado", "tmp"}
\* What a program text binds them to.
Values == {StrV("A"), StrV("B"), IntV(12)}

Digit(d) ==
  CASE d = 0 -> "0" [] d = 1 -> "1" [] d = 2 -> "2" [] d = 3 -> "3" [] d = 4 -> "4"
    [] d = 5 -> "5" [] d = 6 -> "6" [] d = 7 -> "7" [] d = 8 -> "8" [] d = 9 -> "9"

RECURSIVE Decimal(_)
Decimal(n) == IF n < 10 THEN Digit(n) ELSE Decimal(n \div 10) \o Digit(n % 10)

\* str(v): the Python string (a TLA+ string) of a value.
PyStr(v) ==
  CASE v.t = "str" -> v.s
    [] v.t = "int" -> IF v.n < 0 THEN "-" \o Decimal(0 - v.n) ELSE Decimal(v.n)
    [] OTHER -> "None"

\* ------------------------------------------------------------- exceptions
NoExc == [cat |-> "", msg |-> ""]
Exc(c, m) == [cat |-> c, msg |-> m]
\* Subclasses of Exception; SystemExit and KeyboardInterrupt derive from
\* BaseException only.
ExceptionClasses == {"ValueError", "NameError"}
IsException(c) == c \in ExceptionClasses
\* What a raise statement of a program text raises.
RaisedExcs == {Exc("ValueError", "x"), Exc("SystemExit", "x")}

\* -------------------------------------------------------------- namespaces
EmptyNamespace == [v \in Names |-> Unbound]

\* Statements of a program text, executed with exec(code, globals, locals):
\*   assign  : `var = val` at the top level; stored in locals
\*   gassign : `var = val` under a `global var` declaration; stored in globals
\*   copy    : `var = src` at the top level; src is looked up in locals,
\*             then in globals, and is a NameError when neither holds it
\*   raise   : `raise Cat("msg")`
Statements ==
  [op : {"assign", "gassign"}, var : Names, src : {""}, val : Values, exc : {NoExc}]
    \cup {[op |-> "copy", var |-> v, src |-> s, val |-> Unbound, exc |-> NoExc] :
            <<v, s>> \in {<<"resultado", "tmp">>, <<"tmp", "resultado">>}}
    \cup [op : {"raise"}, var : {""}, src : {""}, val : {Unbound}, exc : RaisedExcs]

Lookup(name, l, g) == IF l[name] # Unbound THEN l[name] ELSE g[name]

\* One statement run against the globals g and the locals l.
ExecStatement(st, g, l) ==
  CASE st.op = "assign" ->
         [g |-> g, l |-> [l EXCEPT ![st.var] = st.val], exc |-> NoExc]
    [] st.op = "gassign" ->
         [g |-> [g EXCEPT ![st.var] = st.val], l |-> l, exc |-> NoExc]
    [] st.op = "copy" ->
         IF Lookup(st.src, l, g) = Unbound
           THEN [g |-> g, l |-> l,
                 exc |-> Exc("NameError", "name '" \o st.src \o "' is not defined")]
           ELSE [g |-> g, l |-> [l EXCEPT ![st.var] = Lookup(st.src, l, g)],
                 exc |-> NoExc]
    [] OTHER -> [g |-> g, l |-> l, exc |-> st.exc]

\* ------------------------------------------------- ExecutePythonCodeTool
Sentinel ==
  "Nenhum resultado capturado. A variável \"resultado\" não foi definida no código executado."

\* A slip: local_namespace.get('resultado'), whose default is None.
GetResultadoNoDefault(l) == IF l["resultado"] = Unbound THEN NoneV ELSE l["resultado"]

\* local_namespace.get('resultado', <sentinel>)
GetResultado(l) == IF l["resultado"] = Unbound THEN StrV(Sentinel) ELSE l["resultado"]

\* return str(resultado)
ReturnValue(l) == StrV(PyStr(GetResultado(l)))

\* return f"Erro ao executar o código Python: {type(e).__name__}: {e}"
ErrorString(e) == StrV("Erro ao executar o código Python: " \o e.cat \o ": " \o e.msg)

\* What globals() holds before any program text has run, as far as Names go.
FreshGlobals == EmptyNamespace

\* ----------------------------------------------------------------- the crew
\* A slip: the two tasks listed the other way round.
TasksSwapped == <<"write_task", "task_python_db_query">>

\* Crew(tasks=[task_python_db_query, write_task], process=Process.sequential)
Tasks == <<"task_python_db_query", "write_task">>
TaskNames == {"task_python_db_query", "write_task"}

\* A slip: write_task given tools=[vendas_tool] as well.
TaskToolsAll(t) == {"vendas_tool"}

\* Task(..., tools=[vendas_tool]) for the first task; write_task names no tools
\* and neither agent is given any.
TaskTools(t) == IF t = "task_python_db_query" THEN {"vendas_tool"} ELSE {}

\* A slip: write_task made without its context argument.
TaskContextNone(t) == <<>>

\* Task(..., context=[task_python_db_query]) for write_task.
TaskContext(t) == IF t = "write_task" THEN <<"task_python_db_query">> ELSE <<>>

\* A task's output: the agent's final text, and the kickoff call that made it.
NoOutput == [text |-> "", call |-> 0]
Output(x, c) == [text |-> x, call |-> c]
NoReport == NoOutput

\* Final answers of the two agents.  The language model is free in what it
\* writes: the analyst answers with its script or relays a tool result, the
\* writer follows the salutation instruction or does not.
ScriptText == "script"
RedatorTexts == {"Oi Chefe", "Prezado"}

\* The Pipeline Context handed to task t: the outputs of the tasks its
\* context names, in order.
ContextOf(t, outs) == [j \in 1..Len(TaskContext(t)) |-> outs[TaskContext(t)[j]]]

\* ------------------------------------------------- webhook and SendSandeco
\* Most calls of SendSandeco's media methods a client makes.
MaxSends == 2

\* The webhook requests that are handled at once.
Requests == {1, 2}

\* if msg.phone == "556281685163"
AuthorizedPhone == "556281685163"
Phones == {AuthorizedPhone, "5511999999999"}

\* A slip: the test of the sender left out.
IsAuthorizedAny(p) == TRUE

IsAuthorized(p) == p = AuthorizedPhone

\* Message.TYPE_TEXT, Message.TYPE_AUDIO, and any other type of message.
MessageTypes == {"TYPE_TEXT", "TYPE_AUDIO", "TYPE_OTHER"}

\* The local `msg` before Message(data) has bound it, and once bound.
NoMsg == [bound |-> FALSE, phone |-> "", type |-> ""]
Msg(p, t) == [bound |-> TRUE, phone |-> p, type |-> t]

\* The paths the model looks at; output_file="output.mp3" is the one path
\* every request synthesizes to and sends from.
OutputFile == "output.mp3"
Paths == {OutputFile, "relatorio.pdf"}

\* What a path holds: nothing, or a content.  The speech synthesized from the
\* answer to request r is SpeechOf(r).
NoFile == "absent"
SpeechOf(r) == IF r = 1 THEN "speech1" ELSE "speech2"
Contents == {SpeechOf(r) : r \in Requests}

\* The methods SendSandeco defines, and the media methods among them that
\* test the path first.
SendSandecoMethods ==
  {"textMessage", "PDF", "audio", "audioBase64", "image", "video", "document"}
MediaMethods == {"PDF", "audio", "image", "video", "document"}

\* send.text(number=msg.phone, text="Ocorreu um erro ...") in the handler.
ApologyMethod == "text"
ApologyText == "Ocorreu um erro ao processar a mensagem. Por favor, tente novamente."

\* A slip: the media method without its test of the path.
PathExistsAlways(path, fs) == TRUE

\* os.path.exists(path)
PathExists(path, fs) == fs[path] # NoFile

\* What a media method returns: PDF returns nothing.
MediaReturn(kind) ==
  CASE kind = "audio" -> "Áudio enviado"
    [] kind = "image" -> "Imagem enviada"
    [] kind = "video" -> "Vídeo enviado"
    [] kind = "document" -> "Documento enviado"
    [] OTHER -> "None"

\* One call to the messaging API: by request req (0: a client outside the
\* webhook), of method kind, to a number, with what the path held, and
\* whether the API took it.
ApiCall(req, kind, to, path, content, ok) ==
  [req |-> req, kind |-> kind, to |-> to, path |-> path, content |-> content, ok |-> ok]

\* SendSandeco.PDF, audio, image, video, document: raise FileNotFoundError
\* when the path does not exist, otherwise send through the API, which may
\* itself fail.
MediaMethod(req, kind, to, path, fs, log, ok) ==
  IF ~PathExists(path, fs)
    THEN [exc |-> "FileNotFoundError", log |-> log, ret |-> ""]
    ELSE [exc |-> IF ok THEN "" ELSE "ApiError",
          log |-> Append(log, ApiCall(req, kind, to, path, fs[path], ok)),
          ret |-> IF ok THEN MediaReturn(kind) ELSE ""]

\* The last media call: the method, the path, whether the path held a file
\* when the call was made, and how the call ended.
NoCall == [kind |-> "", path |-> "", existed |-> FALSE, exc |-> "", ret |-> ""]

\* ------------------------------------------------------------------- state
VARIABLES
  module_globals,  \* globals() of custom_tool_vendas.py, shared by every tool
  run,             \* per thread: its current or last call of _run
  phase,           \* per thread: "init", "running", "between", "done", "failed"
  idx,             \* per thread: index in Tasks of the task being run
  task_output,     \* per thread: the outputs of the tasks of this kickoff
  context,         \* per thread: the Pipeline Context of the task being run
  report,          \* per thread: what kickoff returned (result.raw)
  raised,          \* per thread: kickoff raised to its caller
  calls,           \* per thread: kickoff calls made so far
  inst,            \* per thread: the SalesReportCrew object of this call
  toolcalls,       \* per thread: tool invocations made in this kickoff
  wpc,             \* per webhook request: where its handler stands
  wmsg,            \* per webhook request: the local `msg` of its handler
  wfail,           \* per webhook request: the step of it that raised
  wsteps,          \* per webhook request: the steps it has started
  files,           \* the file system: what each path holds
  api_log,         \* the calls made to the messaging API, in order
  last             \* the last call of a media method of SendSandeco

crewVars == <<module_globals, run, phase, idx, task_output, context, report, raised,
              calls, inst, toolcalls>>
webVars == <<wpc, wmsg, wfail, wsteps, files, api_log, last>>
vars == <<crewVars, webVars>>
pipeVars == <<phase, idx, task_output, context, report, raised, calls, inst>>

\* A call of _run.  local_namespace is the dictionary of line 14; nstmts
\* counts the statements run; exc is what the program text raised; bound is
\* the value the program text last bound to `resultado`, in whichever way.
IdleRun ==
  [pc |-> "idle", local_namespace |-> EmptyNamespace, nstmts |-> 0,
   ret |-> Unbound, exc |-> NoExc, bound |-> Unbound]

NoTaskOutputs == [t \in TaskNames |-> NoOutput]

\* The stage names of the orchestrator's state machine, read off the crew.
Stage(i) ==
  CASE phase[i] = "init" -> "INIT"
    [] phase[i] = "running" ->
         IF Tasks[idx[i]] = "task_python_db_query" THEN "GENERATING" ELSE "COMPOSING"
    [] phase[i] = "between" -> "CONTEXT_READY"
    [] phase[i] = "done" -> "DONE"
    [] OTHER -> "FAILED"

Init ==
  /\ module_globals = FreshGlobals
  /\ run = [i \in Threads |-> IdleRun]
  /\ phase = [i \in Threads |-> "init"]
  /\ idx = [i \in Threads |-> 0]
  /\ task_output = [i \in Threads |-> NoTaskOutputs]
  /\ context = [i \in Threads |-> <<>>]
  /\ report = [i \in Threads |-> NoReport]
  /\ raised = [i \in Threads |-> FALSE]
  /\ calls = [i \in Threads |-> 0]
  /\ inst = [i \in Threads |-> 1]
  /\ toolcalls = [i \in Threads |-> 0]
  /\ wpc = [r \in Requests |-> "start"]
  /\ wmsg = [r \in Requests |-> NoMsg]
  /\ wfail = [r \in Requests |-> ""]
  /\ wsteps = [r \in Requests |-> {}]
  /\ files = [p \in Paths |-> NoFile]
  /\ api_log = <<>>
  /\ last = NoCall

\* ------------------------------------------------- ExecutePythonCodeTool._run
\* except Exception as e: the handler takes the subclasses of Exception.
Catches(c) == IsException(c)

\* The value a statement binds to `resultado` (Unbound when it binds none).
BindsResultado(st, r) ==
  IF r.exc # NoExc \/ st.var # "resultado" THEN Unbound
  ELSE IF st.op = "gassign" THEN r.g["resultado"] ELSE r.l["resultado"]

\* An agent may use the tool while its task is running and lists the tool.
ToolAvailable(i) ==
  /\ phase[i] = "running"
  /\ "vendas_tool" \in TaskTools(Tasks[idx[i]])

\* A slip: kickoff catching the failure and returning what the first task gave.
KickoffFailurePartial(outs) ==
  [report |-> outs["task_python_db_query"], raised |-> FALSE]

\* What kickoff hands its caller when crew.kickoff raises: nothing is caught
\* (lines 171-172), so the caller gets the exception and no report.
KickoffFailure(outs) == [report |-> NoReport, raised |-> TRUE]

\* return result.raw: the output of the last task.
KickoffResult(outs) == outs[Tasks[Len(Tasks)]]

\* The agent calls the tool: _run starts with a new local_namespace.
ToolStart(i, cap) ==
  /\ ToolAvailable(i)
  /\ run[i].pc \in {"idle", "returned"}
  /\ toolcalls[i] < cap
  /\ run' = [run EXCEPT ![i] = [IdleRun EXCEPT !.pc = "exec"]]
  /\ toolcalls' = [toolcalls EXCEPT ![i] = @ + 1]
  /\ UNCHANGED <<module_globals, pipeVars>>

\* exec runs the next statement of the program text.  An exception that the
\* handler takes ends _run with the diagnostic string; any other leaves _run,
\* crew.kickoff and kickoff, none of which catches it.
ToolStep(i, st) ==
  /\ phase[i] = "running"
  /\ run[i].pc = "exec"
  /\ run[i].nstmts < MaxLen
  /\ LET r == ExecStatement(st, module_globals, run[i].local_namespace)
         b == BindsResultado(st, r)
         fail == KickoffFailure(task_output[i])
     IN  /\ module_globals' = r.g
         /\ IF r.exc = NoExc
              THEN /\ run' = [run EXCEPT ![i].local_namespace = r.l,
                                         ![i].nstmts = @ + 1,
                                         ![i].bound = IF b = Unbound THEN @ ELSE b]
                   /\ UNCHANGED pipeVars
              ELSE IF Catches(r.exc.cat)
                THEN /\ run' = [run EXCEPT ![i].pc = "returned",
                                           ![i].local_namespace = EmptyNamespace,
                                           ![i].nstmts = @ + 1,
                                           ![i].exc = r.exc,
                                           ![i].ret = ErrorString(r.exc)]
                     /\ UNCHANGED pipeVars
                ELSE /\ run' = [run EXCEPT ![i].pc = "raised",
                                           ![i].local_namespace = EmptyNamespace,
                                           ![i].nstmts = @ + 1,
                                           ![i].exc = r.exc]
                     /\ phase' = [phase EXCEPT ![i] = "failed"]
                     /\ report' = [report EXCEPT ![i] = fail.report]
                     /\ raised' = [raised EXCEPT ![i] = fail.raised]
                     /\ UNCHANGED <<idx, task_output, context, calls, inst>>
  /\ UNCHANGED toolcalls

\* The program text has run to its end: lines 21-22.
ToolFinish(i) ==
  /\ phase[i] = "running"
  /\ run[i].pc = "exec"
  /\ run' = [run EXCEPT ![i].pc = "returned",
                        ![i].local_namespace = EmptyNamespace,
                        ![i].ret = ReturnValue(run[i].local_namespace)]
  /\ UNCHANGED <<module_globals, toolcalls, pipeVars>>

\* ------------------------------------------------- SalesReportCrew.kickoff
\* The caller calls kickoff on the crew object k; the first task starts.
Kickoff(i, k, cap) ==
  /\ phase[i] = "init"
  /\ calls[i] < cap
  /\ calls' = [calls EXCEPT ![i] = @ + 1]
  /\ inst' = [inst EXCEPT ![i] = k]
  /\ phase' = [phase EXCEPT ![i] = "running"]
  /\ idx' = [idx EXCEPT ![i] = 1]
  /\ context' = [context EXCEPT ![i] = ContextOf(Tasks[1], task_output[i])]
  /\ UNCHANGED <<module_globals, run, task_output, report, raised, toolcalls>>

\* What the agent of the running task may give as its final answer.
FinalTexts(i) ==
  IF phase[i] # "running" THEN {}
  ELSE IF Tasks[idx[i]] = "write_task" THEN RedatorTexts
  ELSE {ScriptText} \cup (IF run[i].pc = "returned" THEN {run[i].ret.s} ELSE {})

\* The running task's agent gives its final answer.  After the last task
\* kickoff returns result.raw; otherwise the next task's context is made up.
AgentFinish(i, text) ==
  /\ phase[i] = "running"
  /\ run[i].pc \in {"idle", "returned"}
  /\ text \in FinalTexts(i)
  /\ LET outs == [task_output[i] EXCEPT ![Tasks[idx[i]]] = Output(text, calls[i])]
     IN  /\ task_output' = [task_output EXCEPT ![i] = outs]
         /\ IF idx[i] < Len(Tasks)
              THEN /\ phase' = [phase EXCEPT ![i] = "between"]
                   /\ context' = [context EXCEPT ![i] = ContextOf(Tasks[idx[i] + 1], outs)]
                   /\ UNCHANGED report
              ELSE /\ phase' = [phase EXCEPT ![i] = "done"]
                   /\ report' = [report EXCEPT ![i] = KickoffResult(outs)]
                   /\ UNCHANGED context
  /\ UNCHANGED <<module_globals, run, idx, raised, calls, inst, toolcalls>>

\* A slip: the process runs the task it has just run once more.
NextTaskRepeat(i) ==
  /\ phase[i] = "between"
  /\ phase' = [phase EXCEPT ![i] = "running"]
  /\ run' = [run EXCEPT ![i] = IdleRun]
  /\ UNCHANGED <<module_globals, idx, task_output, context, report, raised, calls,
                 inst, toolcalls>>

\* The sequential process goes on to the next task of the list.
NextTask(i) ==
  /\ phase[i] = "between"
  /\ phase' = [phase EXCEPT ![i] = "running"]
  /\ idx' = [idx EXCEPT ![i] = @ + 1]
  /\ run' = [run EXCEPT ![i] = IdleRun]
  /\ UNCHANGED <<module_globals, task_output, context, report, raised, calls, inst,
                 toolcalls>>

\* Running the task itself fails (the language-model call raises).
StageFail(i) ==
  /\ phase[i] = "running"
  /\ run[i].pc \in {"idle", "returned"}
  /\ LET fail == KickoffFailure(task_output[i])
     IN  /\ report' = [report EXCEPT ![i] = fail.report]
         /\ raised' = [raised EXCEPT ![i] = fail.raised]
  /\ phase' = [phase EXCEPT ![i] = "failed"]
  /\ UNCHANGED <<module_globals, run, idx, task_output, context, calls, inst, toolcalls>>

\* kickoff is over and its caller has the report or the exception; what the
\* call built is dropped.  module_globals belongs to the process and stays.
Return(i) ==
  /\ phase[i] \in {"done", "failed"}
  /\ phase' = [phase EXCEPT ![i] = "init"]
  /\ idx' = [idx EXCEPT ![i] = 0]
  /\ run' = [run EXCEPT ![i] = IdleRun]
  /\ task_output' = [task_output EXCEPT ![i] = NoTaskOutputs]
  /\ context' = [context EXCEPT ![i] = <<>>]
  /\ report' = [report EXCEPT ![i] = NoReport]
  /\ raised' = [raised EXCEPT ![i] = FALSE]
  /\ toolcalls' = [toolcalls EXCEPT ![i] = 0]
  /\ UNCHANGED <<module_globals, calls, inst>>

\* ------------------------------------------------------- specifications
\* One caller, calling kickoff again and again on either crew object.
Callers == {1}

Next ==
  \E i \in Callers :
    \/ \E k \in Instances : Kickoff(i, k, MaxCalls) /\ UNCHANGED webVars
    \/ ToolStart(i, MaxToolCalls) /\ UNCHANGED webVars
    \/ \E st \in Statements : ToolStep(i, st) /\ UNCHANGED webVars
    \/ ToolFinish(i) /\ UNCHANGED webVars
    \/ \E text \in FinalTexts(i) : AgentFinish(i, text) /\ UNCHANGED webVars
    \/ NextTask(i) /\ UNCHANGED webVars
    \/ StageFail(i) /\ UNCHANGED webVars
    \/ Return(i) /\ UNCHANGED webVars

Spec == Init /\ [][Next]_vars

\* kickoff is synchronous: a tool call that has started runs on and returns,
\* a language-model call that has started gives its answer, and the process
\* goes on to the next task.  That a stage fails is never forced.
Fairness ==
  \A i \in Callers :
    /\ WF_vars(((\E st \in Statements : ToolStep(i, st)) \/ ToolFinish(i))
                  /\ UNCHANGED webVars)
    /\ WF_vars((\E text \in FinalTexts(i) : AgentFinish(i, text))
                  /\ UNCHANGED webVars)
    /\ WF_vars(NextTask(i) /\ UNCHANGED webVars)

SpecLive == Spec /\ Fairness

\* Two callers at once, each on a crew object of its own, each making one
\* kickoff with one tool invocation; their steps interleave.  The program
\* text of caller 1 writes "A" wherever it writes a value, that of caller 2
\* writes "B".
OwnValue(i) == IF i = 1 THEN StrV("A") ELSE StrV("B")
StatementsOf(i) ==
  {st \in Statements : st.op \in {"assign", "gassign"} => st.val = OwnValue(i)}

NextConc ==
  \E i \in Threads :
    \/ Kickoff(i, i, 1) /\ UNCHANGED webVars
    \/ ToolStart(i, 1) /\ UNCHANGED webVars
    \/ \E st \in StatementsOf(i) : ToolStep(i, st) /\ UNCHANGED webVars
    \/ ToolFinish(i) /\ UNCHANGED webVars
    \/ \E text \in FinalTexts(i) : AgentFinish(i, text) /\ UNCHANGED webVars
    \/ NextTask(i) /\ UNCHANGED webVars
    \/ StageFail(i) /\ UNCHANGED webVars
    \/ Return(i) /\ UNCHANGED webVars

SpecConc == Init /\ [][NextConc]_vars

\* ---------------------------------------------------------------- webhook()
\* A step of request r raised an Exception: control goes to the handler of
\* `except Exception as e`.
WebRaise(r, step) ==
  /\ wpc' = [wpc EXCEPT ![r] = "handler"]
  /\ wfail' = [wfail EXCEPT ![r] = step]

\* data = request.get_json(); msg = Message(data)
WebParse(r, p, t, ok) ==
  /\ wpc[r] = "start"
  /\ wsteps' = [wsteps EXCEPT ![r] = @ \cup {"parse"}]
  /\ IF ok
       THEN /\ wmsg' = [wmsg EXCEPT ![r] = Msg(p, t)]
            /\ wpc' = [wpc EXCEPT ![r] = "parsed"]
            /\ UNCHANGED wfail
       ELSE /\ WebRaise(r, "parse")
            /\ UNCHANGED wmsg
  /\ UNCHANGED <<files, api_log, last>>

\* if msg.phone == "556281685163": ... ; otherwise straight to
\* return "resposta".
WebAuthorize(r) ==
  /\ wpc[r] = "parsed"
  /\ wpc' = [wpc EXCEPT ![r] =
               IF IsAuthorized(wmsg[r].phone) THEN "authorized" ELSE "returned"]
  /\ UNCHANGED <<wmsg, wfail, wsteps, files, api_log, last>>

\* text = msg.get_text() for a text message, text = tsc.get_text(msg) for an
\* audio message; for any other type `text` stays unbound and reading it in
\* fluxo.kickoff(inputs={'text':text}) raises before the pipeline is called.
WebText(r, ok) ==
  /\ wpc[r] = "authorized"
  /\ wsteps' = [wsteps EXCEPT ![r] =
                  IF wmsg[r].type = "TYPE_AUDIO" THEN @ \cup {"transcribe"} ELSE @]
  /\ CASE wmsg[r].type = "TYPE_TEXT" ->
            IF ok THEN wpc' = [wpc EXCEPT ![r] = "text"] /\ UNCHANGED wfail
                  ELSE WebRaise(r, "get_text")
       [] wmsg[r].type = "TYPE_AUDIO" ->
            IF ok THEN wpc' = [wpc EXCEPT ![r] = "text"] /\ UNCHANGED wfail
                  ELSE WebRaise(r, "transcribe")
       [] OTHER -> WebRaise(r, "text_unbound")
  /\ UNCHANGED <<wmsg, files, api_log, last>>

\* fluxo = FluxoAudio(); resposta = fluxo.kickoff(inputs={'text':text})
WebPipeline(r, ok) ==
  /\ wpc[r] = "text"
  /\ wsteps' = [wsteps EXCEPT ![r] = @ \cup {"pipeline"}]
  /\ IF ok THEN wpc' = [wpc EXCEPT ![r] = "answered"] /\ UNCHANGED wfail
           ELSE WebRaise(r, "pipeline")
  /\ UNCHANGED <<wmsg, files, api_log, last>>

\* speech.synthesize_speech(text=resposta, output_file="output.mp3")
WebSynthesize(r, ok) ==
  /\ wpc[r] = "answered"
  /\ wsteps' = [wsteps EXCEPT ![r] = @ \cup {"synthesize"}]
  /\ IF ok
       THEN /\ files' = [files EXCEPT ![OutputFile] = SpeechOf(r)]
            /\ wpc' = [wpc EXCEPT ![r] = "synthesized"]
            /\ UNCHANGED wfail
       ELSE /\ WebRaise(r, "synthesize")
            /\ UNCHANGED files
  /\ UNCHANGED <<wmsg, api_log, last>>

\* send = SendSandeco(); send.audio(number=msg.phone, audio_file="output.mp3");
\* then return "resposta".
WebSendAudio(r, ok) ==
  /\ wpc[r] = "synthesized"
  /\ wsteps' = [wsteps EXCEPT ![r] = @ \cup {"deliver"}]
  /\ LET out == MediaMethod(r, "audio", wmsg[r].phone, OutputFile, files, api_log, ok)
     IN  /\ api_log' = out.log
         /\ last' = [kind |-> "audio", path |-> OutputFile,
                     existed |-> files[OutputFile] # NoFile,
                     exc |-> out.exc, ret |-> out.ret]
         /\ IF out.exc = ""
              THEN wpc' = [wpc EXCEPT ![r] = "returned"] /\ UNCHANGED wfail
              ELSE WebRaise(r, "deliver")
  /\ UNCHANGED <<wmsg, files>>

\* except Exception as e: print(...); send = SendSandeco();
\* send.text(number=msg.phone, text="Ocorreu um erro ..."); return "resposta".
\* Looking up a method SendSandeco does not define raises AttributeError,
\* reading an unbound `msg` raises UnboundLocalError, and the API may fail:
\* each of them leaves the handler as an exception.
WebHandler(r, ok) ==
  /\ wpc[r] = "handler"
  /\ IF ApologyMethod \in SendSandecoMethods /\ wmsg[r].bound
       THEN /\ api_log' = Append(api_log,
                 ApiCall(r, ApologyMethod, wmsg[r].phone, "", ApologyText, ok))
            /\ wpc' = [wpc EXCEPT ![r] = IF ok THEN "returned" ELSE "escaped"]
       ELSE /\ wpc' = [wpc EXCEPT ![r] = "escaped"]
            /\ UNCHANGED api_log
  /\ UNCHANGED <<wmsg, wfail, wsteps, files, last>>

\* Two requests handled at once, as the threaded development server of
\* app.run(...) does.
NextWeb ==
  \E r \in Requests :
    \/ \E p \in Phones, t \in MessageTypes, ok \in BOOLEAN : WebParse(r, p, t, ok) /\ UNCHANGED crewVars
    \/ WebAuthorize(r) /\ UNCHANGED crewVars
    \/ \E ok \in BOOLEAN : WebText(r, ok) /\ UNCHANGED crewVars
    \/ \E ok \in BOOLEAN : WebPipeline(r, ok) /\ UNCHANGED crewVars
    \/ \E ok \in BOOLEAN : WebSynthesize(r, ok) /\ UNCHANGED crewVars
    \/ \E ok \in BOOLEAN : WebSendAudio(r, ok) /\ UNCHANGED crewVars
    \/ \E ok \in BOOLEAN : WebHandler(r, ok) /\ UNCHANGED crewVars

SpecWeb == Init /\ [][NextWeb]_vars

\* ------------------------------------------------- SendSandeco media methods
\* A client calls PDF, audio, image, video or document with a path.
ClientSend(kind, to, path, ok) ==
  /\ Len(api_log) < MaxSends
  /\ LET out == MediaMethod(0, kind, to, path, files, api_log, ok)
     IN  /\ api_log' = out.log
         /\ last' = [kind |-> kind, path |-> path,
                     existed |-> files[path] # NoFile,
                     exc |-> out.exc, ret |-> out.ret]
  /\ UNCHANGED <<wpc, wmsg, wfail, wsteps, files>>

\* The file system around the client: a file is written, a file is removed.
\* What the file holds plays no part in the methods: one content is enough.
FileWrite(path, c) ==
  /\ files' = [files EXCEPT ![path] = c]
  /\ UNCHANGED <<wpc, wmsg, wfail, wsteps, api_log, last>>

FileRemove(path) ==
  /\ files[path] # NoFile
  /\ files' = [files EXCEPT ![path] = NoFile]
  /\ UNCHANGED <<wpc, wmsg, wfail, wsteps, api_log, last>>

NextSend ==
    \/ \E kind \in MediaMethods, path \in Paths, ok \in BOOLEAN :
         ClientSend(kind, AuthorizedPhone, path, ok) /\ UNCHANGED crewVars
    \/ \E path \in Paths : FileWrite(path, SpeechOf(1)) /\ UNCHANGED crewVars
    \/ \E path \in Paths : FileRemove(path) /\ UNCHANGED crewVars

SpecSend == Init /\ [][NextSend]_vars

\* ------------------------------------------------------------------ claims
\* Text that may stand before or after a part of the tool's diagnostic string.
Affixes ==
  {"", "Erro ao executar o código Python: "}
    \cup {"Erro ao executar o código Python: " \o c \o ": " :
            c \in ExceptionClasses \cup {"SystemExit"}}
    \cup {": " \o m : m \in {"x", "name 'tmp' is not defined",
                              "name 'resultado' is not defined"}}
Contains(s, x) == \E a \in Affixes, b \in Affixes : s = a \o x \o b

\* C1: whenever the program text raised, whatever the error, _run returned a
\* string that contains the error's type name and its message; the error did
\* not leave _run.
C1_ErrorsAbsorbed ==
  \A i \in Threads :
    run[i].exc # NoExc =>
      /\ run[i].pc = "returned"
      /\ run[i].ret.t = "str"
      /\ Contains(run[i].ret.s, run[i].exc.cat)
      /\ Contains(run[i].ret.s, run[i].exc.msg)

\* C2: when the program text bound `resultado`, in whichever way, and ran to
\* its end without raising, _run returned the string form of the value bound.
C2_ReturnsBoundValue ==
  \A i \in Threads :
    (run[i].pc = "returned" /\ run[i].exc = NoExc /\ run[i].bound # Unbound)
      => run[i].ret = StrV(PyStr(run[i].bound))

\* C3: a program text that ends without having raised and without ever
\* having bound `resultado` makes _run return the sentinel, not raise; and
\* whatever _run returns is a string.
C3_SentinelWhenUnbound ==
  \A i \in Threads :
    /\ run[i].pc = "returned" => run[i].ret.t = "str"
    /\ (run[i].pc \in {"returned", "raised"} /\ run[i].exc = NoExc
          /\ run[i].bound = Unbound)
         => (run[i].pc = "returned" /\ run[i].ret = StrV(Sentinel))

\* A text of at least one statement that never bound `resultado` got the
\* sentinel, although an earlier call left a global `resultado` behind.
C3_Witness ==
  \E i \in Threads :
    /\ run[i].pc = "returned" /\ run[i].exc = NoExc /\ run[i].bound = Unbound
    /\ run[i].nstmts > 0
    /\ module_globals["resultado"] # Unbound
    /\ run[i].ret = StrV(Sentinel)

\* C4: when a call of _run starts on its program text, no name is visible to
\* the text that the text of an earlier call bound.
C4_FreshNamespacePerCall ==
  \A i \in Threads :
    (run[i].pc = "exec" /\ run[i].nstmts = 0) => module_globals = FreshGlobals

\* C5: of two concurrent invocations whose texts write "A" and "B", neither
\* gets the other's value: not as what _run returns, and not in a variable of
\* its namespace.
C5_NoInterference ==
  \A i \in Threads : \A j \in Threads \ {i} :
    /\ run[i].pc = "returned" => run[i].ret # StrV(PyStr(OwnValue(j)))
    /\ \A v \in Names : run[i].local_namespace[v] # OwnValue(j)

\* C6: the stages of an invocation follow one another in the order INIT,
\* GENERATING, CONTEXT_READY, COMPOSING, DONE (a failing stage ends the
\* invocation, and the next invocation starts at INIT); an invocation that is
\* DONE has run each stage, in this invocation.
StageTransitions ==
  {<<"INIT", "GENERATING">>, <<"GENERATING", "CONTEXT_READY">>,
   <<"CONTEXT_READY", "COMPOSING">>, <<"COMPOSING", "DONE">>,
   <<"GENERATING", "FAILED">>, <<"COMPOSING", "FAILED">>,
   <<"DONE", "INIT">>, <<"FAILED", "INIT">>}

C6_StageOrder ==
  [][\A i \in Threads :
       /\ Stage(i)' # Stage(i) => <<Stage(i), Stage(i)'>> \in StageTransitions
       /\ Stage(i)' = "DONE" =>
            \A t \in TaskNames :
              /\ task_output'[i][t].call = calls'[i]
              /\ (task_output[i][t].call = calls[i]) <=> (t = "task_python_db_query")]_vars

\* The second invocation of a caller is DONE.
C6_Witness ==
  \E i \in Threads :
    /\ Stage(i) = "DONE" /\ calls[i] = 2
    /\ \A t \in TaskNames : task_output[i][t].call = 2

\* C7: while the Composition Stage runs, and from CONTEXT_READY on, the
\* Pipeline Context is one entry, the output the Generation Stage gave in
\* this invocation.
C7_ContextOneEntry ==
  \A i \in Threads :
    Stage(i) \in {"CONTEXT_READY", "COMPOSING"} =>
      /\ Len(context[i]) = 1
      /\ context[i][1] = task_output[i]["task_python_db_query"]
      /\ context[i][1] # NoOutput
      /\ context[i][1].call = calls[i]

\* The Composition Stage of a second invocation runs on the sentinel that the
\* Generation Stage relayed.
C7_Witness ==
  \E i \in Threads :
    /\ Stage(i) = "COMPOSING" /\ calls[i] = 2
    /\ context[i] = <<Output(Sentinel, 2)>>

\* C8: an invocation that failed raised to its caller and returned no
\* report; a report is returned by an invocation that is DONE only.
C8_FailureIsFatal ==
  \A i \in Threads :
    /\ Stage(i) = "FAILED" => (raised[i] /\ report[i] = NoReport)
    /\ raised[i] => Stage(i) = "FAILED"
    /\ report[i] # NoReport => Stage(i) = "DONE"

\* The Composition Stage failed when the Generation Stage had given its
\* output.
C8_Witness ==
  \E i \in Threads :
    /\ Stage(i) = "FAILED" /\ idx[i] = 2 /\ run[i].pc # "raised"
    /\ task_output[i]["task_python_db_query"] # NoOutput
    /\ raised[i] /\ report[i] = NoReport

\* C9: a call of _run ends with a string, also when the program text raised
\* or left `resultado` unbound, and the Generation Stage goes on.
C9_ToolErrorsNeverAbort ==
  [][\A i \in Threads :
       (run[i].pc = "exec" /\ run'[i].pc # "exec") =>
         /\ run'[i].pc = "returned"
         /\ run'[i].ret.t = "str"
         /\ Stage(i)' = "GENERATING"]_vars

\* C10: when kickoff is called, nothing that an earlier call produced is
\* left: no tool variable, no task output, no context entry, no report.
C10_CallsIndependent ==
  \A i \in Callers :
    phase[i] = "init" =>
      /\ module_globals = FreshGlobals
      /\ run[i] = IdleRun
      /\ task_output[i] = NoTaskOutputs
      /\ context[i] = <<>>
      /\ report[i] = NoReport

\* C11: the tool is invoked in GENERATING only: a call of _run starts and
\* runs while the stage is GENERATING, and none is running or started in
\* COMPOSING or later, however many the Generation Stage made.
C11_ToolOnlyWhileGenerating ==
  [][\A i \in Threads :
       /\ toolcalls'[i] > toolcalls[i] =>
            (Stage(i) = "GENERATING" /\ Stage(i)' = "GENERATING")
       /\ run'[i].pc = "exec" => Stage(i)' = "GENERATING"
       /\ Stage(i)' \in {"COMPOSING", "DONE"} =>
            (toolcalls'[i] = toolcalls[i] /\ run'[i].pc = "idle")]_vars

\* The Composition Stage runs after the Generation Stage made two tool calls.
C11_Witness ==
  \E i \in Threads : Stage(i) = "COMPOSING" /\ toolcalls[i] = 2

\* C12: an invocation that has entered GENERATING goes on to DONE or to a
\* failure raised to the caller; it is not taken back to INIT from
\* GENERATING, CONTEXT_READY or COMPOSING.
C12_RunsToEnd ==
  /\ \A i \in Callers :
       (Stage(i) \in {"GENERATING", "CONTEXT_READY", "COMPOSING"})
         ~> (Stage(i) \in {"DONE", "FAILED"})
  /\ [][\A i \in Callers :
          (Stage(i) \in {"GENERATING", "CONTEXT_READY", "COMPOSING"}
             /\ Stage(i)' # Stage(i))
            => Stage(i)' # "INIT"]_vars

\* An invocation whose Generation Stage used the tool twice is DONE.
C12_Witness ==
  \E i \in Callers : Stage(i) = "DONE" /\ toolcalls[i] = 2 /\ ~raised[i]
\* The steps of a webhook request that can fail, and the request being over.
FailureSteps ==
  {"parse", "get_text", "transcribe", "text_unbound", "pipeline", "synthesize", "deliver"}
WebOver(r) == wpc[r] \in {"returned", "escaped"}

\* The apology text was delivered to the phone of request r.
ApologyDelivered(r) ==
  \E k \in 1..Len(api_log) :
    /\ api_log[k].req = r
    /\ api_log[k].content = ApologyText
    /\ api_log[k].to = wmsg[r].phone
    /\ api_log[k].ok

\* C13: when a step of processing a webhook request fails (parsing,
\* transcription, the pipeline, speech synthesis or audio delivery), the
\* handler delivers the apology text to the requesting phone and the failure
\* does not escape the handler.
C13_FailureBecomesApology ==
  \A r \in Requests :
    /\ wpc[r] # "escaped"
    /\ (wfail[r] \in FailureSteps /\ WebOver(r))
         => (wpc[r] = "returned" /\ ApologyDelivered(r))

\* The final answers of the redator are told apart by their opening words.
Salutation == "Oi Chefe"
BeginsWithSalutation(text) == text = Salutation

\* C14: every invocation that reaches DONE returns a non-empty Report that
\* begins with the salutation 'Oi Chefe'.
C14_ReportBeginsWithSalutation ==
  \A i \in Callers :
    Stage(i) = "DONE" =>
      (report[i].text # "" /\ BeginsWithSalutation(report[i].text))

\* C15: each of PDF, audio, image, video and document, given a path that
\* does not exist, raises FileNotFoundError and makes no call to the
\* messaging API; a call to the API is made only for a path that exists.
C15_NoSendWithoutFile ==
  [][/\ (last' # last /\ last'.kind \in MediaMethods /\ ~last'.existed)
          => (last'.exc = "FileNotFoundError" /\ api_log' = api_log)
     /\ api_log' # api_log
          => LET call == api_log'[Len(api_log')]
             IN  /\ api_log' = Append(api_log, call)
                 /\ call.kind \in MediaMethods
                 /\ files[call.path] # NoFile
                 /\ call.content = files[call.path]
                 /\ last'.existed /\ last'.exc # "FileNotFoundError"]_vars

C15_Witness ==
  /\ last.kind = "PDF" /\ ~last.existed /\ last.exc = "FileNotFoundError"
  /\ Len(api_log) = 1 /\ api_log[1].kind = "document"

\* C16: when webhook requests are handled at once, the audio each request
\* sends is the speech synthesized from that request's own answer.
C16_OwnAudio ==
  \A k \in 1..Len(api_log) :
    api_log[k].kind = "audio" =>
      api_log[k].content = SpeechOf(api_log[k].req)

\* The steps of a request that are kept for the authorized sender.
GuardedSteps == {"transcribe", "pipeline", "synthesize", "deliver"}

\* C17: transcription, the pipeline, synthesis and delivery happen only for
\* a message whose sender is the authorized number; for a message from any
\* other number none of them happens and the handler returns its response.
C17_OnlyAuthorized ==
  \A r \in Requests :
    /\ wsteps[r] \cap GuardedSteps # {} =>
         (wmsg[r].bound /\ wmsg[r].phone = AuthorizedPhone)
    /\ (wmsg[r].bound /\ wmsg[r].phone # AuthorizedPhone) =>
         /\ wpc[r] \in {"parsed", "returned"}
         /\ wfail[r] = ""
         /\ \A k \in 1..Len(api_log) :
              api_log[k].req # r /\ api_log[k].to # wmsg[r].phone
         /\ files[OutputFile] # SpeechOf(r)

C17_Witness ==
  \E r, q \in Requests :
    /\ wmsg[r].bound /\ wmsg[r].phone # AuthorizedPhone /\ wpc[r] = "returned"
    /\ wmsg[q].phone = AuthorizedPhone /\ wpc[q] = "returned"
    /\ \E k \in 1..Len(api_log) : api_log[k].req = q /\ api_log[k].ok

====
